---- MODULE Spec2Model ----
(***************************************************************************)
(* HelloExif (src/src/main.rs): byte search, 12-byte IFD record decoding,  *)
(* value resolution and the driver that chains them.                      *)
(*                                                                         *)
(* Integers: u8 and u16 are naturals.  u32 and usize do not fit the model  *)
(* checker's 32-bit integers, so they are kept at full width as sequences  *)
(* of 16-bit limbs, least significant first: u32 = <<lo, hi>>,             *)
(* usize = <<l0, l1, l2, l3>> (64-bit target).                             *)
(*                                                                         *)
(* A call that can panic returns [tag |-> "Ok", val |-> v] or              *)
(* [tag |-> "Panic"].                                                      *)
(***************************************************************************)
EXTENDS Integers, Sequences, FiniteSets, TLC

VARIABLES
    pc,                  \* position of the run
    buf,                 \* the byte buffer (Vec<u8>)
    seq,                 \* find: the pattern
    offset,              \* IFD::from_offset: the offset argument
    self,                \* print_value / fmt: the IFD record
    header_offset,       \* print_value: the header offset argument
    ret,                 \* result of the call under study
    out,                 \* lines written to stdout
    file,                \* main: outcome of File::open and metadata().len()
    tiff_header_offset,  \* main: local
    ifd_make_offset,     \* main: local
    ifd_make_tag,        \* main: local
    step                 \* main: loop variable of the dump

vars == <<pc, buf, seq, offset, self, header_offset, ret, out, file,
          tiff_header_offset, ifd_make_offset, ifd_make_tag, step>>

(***************************************************************************)
(* Bounds of the model.                                                    *)
(***************************************************************************)
MaxLen == 4          \* longest exhaustively enumerated buffer
MaxSeqLen == 2       \* longest search pattern
MaxPad == 1          \* filler bytes put before or between the parts of a built buffer

(***************************************************************************)
(* Fixed-width integers.                                                   *)
(***************************************************************************)
ByteRadix == 256                 \* values of a u8
Limb == ByteRadix * ByteRadix    \* values of a 16-bit limb
IFDLen == 12                     \* bytes of an IFD record (offset..offset+12)
DumpSpan == 100                  \* (0..100)
DumpStep == 10                   \* .step_by(10)
DumpChunk == 10                  \* print_offset(&buf, step, 10)

Ok(v) == [tag |-> "Ok", val |-> v]
Panic == [tag |-> "Panic"]

Min(S) == CHOOSE m \in S : \A n \in S : m <= n

\* u16::from_le_bytes
U16FromLeBytes(b) == b[1] + ByteRadix * b[2]

\* u32::from_le_bytes
U32FromLeBytes(b) == <<b[1] + ByteRadix * b[2], b[3] + ByteRadix * b[4]>>

\* u16::to_le_bytes
U16ToLeBytes(x) == <<x % ByteRadix, x \div ByteRadix>>

\* the bytes most significant first
U32ToLeBytes_BigEndian(x) ==
    <<x[2] \div ByteRadix, x[2] % ByteRadix, x[1] \div ByteRadix, x[1] % ByteRadix>>

\* u32::to_le_bytes
U32ToLeBytes(x) ==
    <<x[1] % ByteRadix, x[1] \div ByteRadix, x[2] % ByteRadix, x[2] \div ByteRadix>>

\* `as usize` of a u32 (zero extension), and a small natural as a usize
U32AsUsize(x) == <<x[1], x[2], 0, 0>>
Usize(n) == <<n % Limb, n \div Limb, 0, 0>>

\* usize + usize: the sum modulo 2^64 and the carry out of the top limb
AddUsize(a, b) ==
    LET s1 == a[1] + b[1]
        s2 == a[2] + b[2] + (s1 \div Limb)
        s3 == a[3] + b[3] + (s2 \div Limb)
        s4 == a[4] + b[4] + (s3 \div Limb)
    IN  [sum |-> <<s1 % Limb, s2 % Limb, s3 % Limb, s4 % Limb>>,
         carry |-> s4 \div Limb]

\* a < b on usize
UsizeLt(a, b) ==
    \E i \in 1..4 : a[i] < b[i] /\ \A j \in (i+1)..4 : a[j] = b[j]

UsizeToNat(a) == a[1] + Limb * a[2]

(***************************************************************************)
(* Slicing: &buf[start..end] with usize bounds.  Panics when start > end   *)
(* or end > len.                                                           *)
(***************************************************************************)
Slice(b, start, end) ==
    IF UsizeLt(end, start) \/ UsizeLt(Usize(Len(b)), end)
    THEN Panic
    ELSE Ok(SubSeq(b, UsizeToNat(start) + 1, UsizeToNat(end)))

\* &buf[offset..offset+length].  An addition that overflows 64 bits panics with
\* overflow checks on; offsets found in a buffer plus 32-bit fields never reach it.
SliceFrom(b, start, length) ==
    LET e == AddUsize(start, length)
    IN  IF e.carry > 0 THEN Panic ELSE Slice(b, start, e.sum)

(***************************************************************************)
(* find (lines 173-180)                                                    *)
(***************************************************************************)
\* buf.windows(n), n > 0: the contiguous windows of length n, in order
Windows(b, n) ==
    [i \in 1..(IF Len(b) >= n THEN Len(b) - n + 1 ELSE 0) |-> SubSeq(b, i, i + n - 1)]

\* bytes.iter().zip(seq.iter()).fold(true, |acc, (a, b)| acc && a == b)
RECURSIVE ZipFold(_, _, _, _)
ZipFold(bytes, s, i, acc) ==
    IF i > Len(bytes) \/ i > Len(s) THEN acc
    ELSE ZipFold(bytes, s, i + 1, acc /\ bytes[i] = s[i])

\* .enumerate().find(pred): the first (index, window) satisfying pred, the one
\* that no satisfying window precedes
IterFind(w, s) ==
    LET pred(i) == ZipFold(w[i], s, 1, TRUE)
        first == {i \in 1..Len(w) : pred(i) /\ \A j \in 1..(i - 1) : ~pred(j)}
    IN  IF first = {} THEN [some |-> FALSE, idx |-> 0]
        ELSE [some |-> TRUE, idx |-> (CHOOSE i \in first : TRUE) - 1]

\* keeps scanning after a match: the last matching window wins
find_LastMatch(b, s) ==
    LET w == Windows(b, Len(s))
        hits == {i \in DOMAIN w : ZipFold(w[i], s, 1, TRUE)}
    IN  IF Len(s) = 0 THEN Panic
        ELSE Ok(IF hits = {} THEN 0 ELSE (CHOOSE m \in hits : \A n \in hits : n <= m) - 1)

\* scans 0 .. len(buf) - len(seq) with an unchecked subtraction
find_ShortBufferPanics(b, s) ==
    IF Len(s) = 0 \/ Len(b) < Len(s) THEN Panic
    ELSE LET r == IterFind(Windows(b, Len(s)), s)
         IN  Ok(IF r.some THEN r.idx ELSE 0)

find(b, s) ==
    IF Len(s) = 0 THEN Panic          \* windows(0) panics
    ELSE LET r == IterFind(Windows(b, Len(s)), s)
         IN  Ok(IF r.some THEN r.idx ELSE 0)     \* unwrap_or((0, &[0])).0

(***************************************************************************)
(* bytes_from_str (lines 156-167).  A &str is a sequence of characters.    *)
(***************************************************************************)
HexDigits == <<"0", "1", "2", "3", "4", "5", "6", "7", "8", "9",
               "a", "b", "c", "d", "e", "f">>

\* u8::from_str_radix(&byte, 16).unwrap_or(0) on a two-character string (the digits
\* main passes are lower-case)
FromStrRadix16(c1, c2) ==
    LET val(c) == {i \in 1..16 : HexDigits[i] = c}
    IN  IF val(c1) = {} \/ val(c2) = {} THEN 0
        ELSE 16 * ((CHOOSE i \in val(c1) : TRUE) - 1) + ((CHOOSE i \in val(c2) : TRUE) - 1)

bytes_from_str(s) ==
    [k \in 1..((Len(s) + 1) \div 2) |->
        FromStrRadix16(s[2 * k - 1], IF 2 * k <= Len(s) THEN s[2 * k] ELSE "0")]

(***************************************************************************)
(* IFD (lines 35-102)                                                      *)
(***************************************************************************)
\* impl From<&[u8]> for IFD: v[..2], v[2..4], v[4..8], v[8..]; copy_from_slice
\* panics unless the source slice has the length of the destination array
\* tag_type read from v[1..3], overlapping the tag
IFDFrom_TypeOverlapsTag(v) ==
    IF Len(v) /= IFDLen THEN Panic
    ELSE Ok([tag          |-> U16FromLeBytes(SubSeq(v, 1, 2)),
             tag_type     |-> U16FromLeBytes(SubSeq(v, 2, 3)),
             count        |-> U32FromLeBytes(SubSeq(v, 5, 8)),
             value_offset |-> U32FromLeBytes(SubSeq(v, 9, Len(v)))])

IFDFrom(v) ==
    IF Len(v) /= IFDLen THEN Panic
    ELSE Ok([tag          |-> U16FromLeBytes(SubSeq(v, 1, 2)),
             tag_type     |-> U16FromLeBytes(SubSeq(v, 3, 4)),
             count        |-> U32FromLeBytes(SubSeq(v, 5, 8)),
             value_offset |-> U32FromLeBytes(SubSeq(v, 9, Len(v)))])

\* IFD::from_offset: IFD::from(&buf[offset..offset+12])
from_offset(b, off) ==
    LET s == SliceFrom(b, Usize(off), Usize(IFDLen))
    IN  IF s.tag = "Panic" THEN Panic ELSE IFDFrom(s.val)

\* the four to_le_bytes() arrays of LowerHex::fmt (lines 75-78), in order
IFDLeBytes(ifd) ==
    <<U16ToLeBytes(ifd.tag), U16ToLeBytes(ifd.tag_type),
      U32ToLeBytes(ifd.count), U32ToLeBytes(ifd.value_offset)>>

(***************************************************************************)
(* Formatting                                                              *)
(***************************************************************************)
\* {:02x} of a u8
Hex2(b) == HexDigits[(b \div 16) + 1] \o HexDigits[(b % 16) + 1]

\* decimal rendering of a natural below 2^31
RECURSIVE DecStr(_)
DecStr(n) ==
    IF n < 10 THEN HexDigits[n + 1]
    ELSE DecStr(n \div 10) \o HexDigits[(n % 10) + 1]

\* decimal rendering of a u32
RECURSIVE U32DecStr(_)
U32DecStr(x) ==
    LET rh == x[2] % 10
        t  == (rh * Limb) + x[1]
        q  == <<t \div 10, x[2] \div 10>>
    IN  IF q = <<0, 0>> THEN HexDigits[(t % 10) + 1]
        ELSE U32DecStr(q) \o HexDigits[(t % 10) + 1]

\* byte_vec_to_hex_string (lines 8-10): "{:02x} " per byte
RECURSIVE byte_vec_to_hex_string(_)
byte_vec_to_hex_string(v) ==
    IF v = <<>> THEN ""
    ELSE Hex2(Head(v)) \o " " \o byte_vec_to_hex_string(Tail(v))

\* {:02x?} of a byte array: "[0f, 01]"
RECURSIVE HexList(_)
HexList(a) ==
    IF Len(a) = 1 THEN Hex2(a[1])
    ELSE Hex2(Head(a)) \o ", " \o HexList(Tail(a))

HexDebugArray(a) == "[" \o HexList(a) \o "]"

\* impl fmt::LowerHex for IFD (lines 73-84)
IFDLowerHex(ifd) ==
    LET f == IFDLeBytes(ifd)
    IN  HexDebugArray(f[1]) \o HexDebugArray(f[2]) \o HexDebugArray(f[3]) \o HexDebugArray(f[4])

\* impl fmt::Display for IFD (lines 88-93)
IFDDisplay(ifd) ==
    DecStr(ifd.tag) \o ", " \o DecStr(ifd.tag_type) \o ", "
        \o U32DecStr(ifd.count) \o ", " \o U32DecStr(ifd.value_offset)

\* a line of stdout: the literal text and, for text taken from the buffer, its bytes
Line(text, bytes) == [text |-> text, bytes |-> bytes]

\* print_offset (lines 134-136)
print_offset(b, off, length) ==
    LET s == SliceFrom(b, Usize(off), Usize(length))
    IN  IF s.tag = "Panic" THEN Panic
        ELSE Ok(Line(byte_vec_to_hex_string(s.val), <<>>))

(***************************************************************************)
(* str::from_utf8 (line 140): the well-formed byte sequences of UTF-8.     *)
(***************************************************************************)
InRange(b, j, lo, hi) == j <= Len(b) /\ lo <= b[j] /\ b[j] <= hi
Cont(b, j) == InRange(b, j, 128, 191)

\* length of the well-formed sequence starting at b[i], 0 when there is none
Utf8SeqLen(b, i) ==
    LET c == b[i]
    IN  IF c < 128 THEN 1
        ELSE IF c >= 194 /\ c <= 223 THEN (IF Cont(b, i + 1) THEN 2 ELSE 0)
        ELSE IF c = 224 THEN (IF InRange(b, i + 1, 160, 191) /\ Cont(b, i + 2) THEN 3 ELSE 0)
        ELSE IF c = 237 THEN (IF InRange(b, i + 1, 128, 159) /\ Cont(b, i + 2) THEN 3 ELSE 0)
        ELSE IF c >= 225 /\ c <= 239 THEN (IF Cont(b, i + 1) /\ Cont(b, i + 2) THEN 3 ELSE 0)
        ELSE IF c = 240
             THEN (IF InRange(b, i + 1, 144, 191) /\ Cont(b, i + 2) /\ Cont(b, i + 3) THEN 4 ELSE 0)
        ELSE IF c >= 241 /\ c <= 243
             THEN (IF Cont(b, i + 1) /\ Cont(b, i + 2) /\ Cont(b, i + 3) THEN 4 ELSE 0)
        ELSE IF c = 244
             THEN (IF InRange(b, i + 1, 128, 143) /\ Cont(b, i + 2) /\ Cont(b, i + 3) THEN 4 ELSE 0)
        ELSE 0

\* Utf8Error::valid_up_to: the number of leading bytes that are well formed
RECURSIVE ValidUpTo(_, _)
ValidUpTo(b, i) ==
    IF i > Len(b) THEN Len(b)
    ELSE LET n == Utf8SeqLen(b, i)
         IN  IF n = 0 THEN i - 1 ELSE ValidUpTo(b, i + n)

from_utf8(b) ==
    LET n == ValidUpTo(b, 1)
    IN  IF n = Len(b) THEN [ok |-> TRUE, s |-> b]
        ELSE [ok |-> FALSE, valid_up_to |-> n]

(***************************************************************************)
(* print_offset_as_string (lines 139-144) and IFD::print_value (114-127)   *)
(***************************************************************************)
QuotedText == "'{}'"
RangeErrorText == "Error while printing range: {}"
CaughtPanicText ==
    "Caught panic while printing value -- values may have been stored in other endianness."

print_offset_as_string(b, off, length) ==
    LET s == SliceFrom(b, off, length)
    IN  IF s.tag = "Panic" THEN Panic
        ELSE LET r == from_utf8(s.val)
             IN  IF r.ok THEN Ok(Line(QuotedText, r.s))
                 ELSE Ok(Line(RangeErrorText, <<r.valid_up_to>>))

\* value_offset taken from the start of the buffer, not from the header
PrintValueClosure_FromBufferStart(ifd, b, h) ==
    print_offset_as_string(b, U32AsUsize(ifd.value_offset), U32AsUsize(ifd.count))

\* the closure handed to catch_unwind (lines 115-121)
PrintValueClosure(ifd, b, h) ==
    LET a == AddUsize(Usize(h), U32AsUsize(ifd.value_offset))
    IN  IF a.carry > 0 THEN Panic
        ELSE print_offset_as_string(b, a.sum, U32AsUsize(ifd.count))

\* the closure called without catch_unwind
print_value_NoCatch(ifd, b, h) ==
    LET a == AddUsize(Usize(h), U32AsUsize(ifd.value_offset))
    IN  IF a.carry > 0 THEN Panic
        ELSE print_offset_as_string(b, a.sum, U32AsUsize(ifd.count))

\* print_value: catch_unwind turns a panic of the closure into the Err arm's line;
\* the result is the line left on stdout
print_value(ifd, b, h) ==
    LET r == PrintValueClosure(ifd, b, h)
    IN  IF r.tag = "Ok" THEN Ok(r.val) ELSE Ok(Line(CaughtPanicText, <<>>))

(***************************************************************************)
(* Inputs                                                                  *)
(***************************************************************************)
Seqs(S, n) == UNION {[1..k -> S] : k \in 0..n}
Fill(n, f) == [i \in 1..n |-> f]

DefaultIFD == [tag |-> 0, tag_type |-> 0, count |-> <<0, 0>>, value_offset |-> <<0, 0>>]
NoRet == [tag |-> "None"]

\* the header marker "II", the first byte of the tag marker, and zero
FindBytes == {0, 15, 73}

(***************************************************************************)
(* find on its own: every buffer and pattern over FindBytes                *)
(***************************************************************************)
InitFind ==
    /\ pc = "find_start"
    /\ buf \in Seqs(FindBytes, MaxLen)
    /\ seq \in Seqs(FindBytes, MaxSeqLen)
    /\ offset = 0 /\ self = DefaultIFD /\ header_offset = 0
    /\ ret = NoRet /\ out = <<>> /\ file = "none"
    /\ tiff_header_offset = 0 /\ ifd_make_offset = 0
    /\ ifd_make_tag = DefaultIFD /\ step = 0

FindCall ==
    /\ pc = "find_start"
    /\ ret' = find(buf, seq)
    /\ pc' = IF ret'.tag = "Panic" THEN "find_panicked" ELSE "find_done"
    /\ UNCHANGED <<buf, seq, offset, self, header_offset, out, file,
                   tiff_header_offset, ifd_make_offset, ifd_make_tag, step>>

NextFind == FindCall

SpecFind == InitFind /\ [][NextFind]_vars

(***************************************************************************)
(* Claims about find                                                       *)
(***************************************************************************)
MatchesAt(b, p, k) == k + Len(p) <= Len(b) /\ \A i \in 1..Len(p) : b[k + i] = p[i]
Occurrences(b, p) == {k \in 0..Len(b) : MatchesAt(b, p, k)}

\* C1: when the non-empty pattern occurs in the buffer, find returns the smallest
\* offset at which the buffer equals the pattern element-wise (0 for a match at 0).
C1_FindFirstMatch ==
    (pc /= "find_start" /\ Len(seq) > 0 /\ Occurrences(buf, seq) /= {})
        => ret = Ok(Min(Occurrences(buf, seq)))

\* the pattern occurs twice, first at a non-zero offset
C1_Witness ==
    /\ pc = "find_done"
    /\ Cardinality(Occurrences(buf, seq)) >= 2
    /\ Min(Occurrences(buf, seq)) >= 1
    /\ ret.val = Min(Occurrences(buf, seq))

\* C2: when the non-empty pattern does not occur in the buffer (the empty buffer and
\* buffers shorter than the pattern included), find returns 0 and does not panic.
C2_FindAbsentIsZero ==
    (pc /= "find_start" /\ Len(seq) > 0 /\ Occurrences(buf, seq) = {})
        => (pc = "find_done" /\ ret = Ok(0))

\* a non-empty buffer shorter than the pattern
C2_Witness ==
    /\ pc = "find_done"
    /\ Len(buf) > 0 /\ Len(buf) < Len(seq)
    /\ ret = Ok(0)

(***************************************************************************)
(* IFD::from_offset and the two renderings on their own                    *)
(***************************************************************************)
\* bytes that mark what lies around the record
SurroundBytes == {170}

\* the 12-byte record of the decode scenario: tag 1, type 2, count 5, offset 8
ScenarioRecord == <<1, 0, 2, 0, 5, 0, 0, 0, 8, 0, 0, 0>>

\* 12-byte slices: every position is zero or a value of its own
PositionBytes == <<15, 1, 2, 255, 5, 128, 127, 1, 8, 16, 254, 255>>
Slices12 ==
    {[i \in 1..IFDLen |-> IF i \in m THEN PositionBytes[i] ELSE 0] : m \in SUBSET (1..IFDLen)}
        \cup {ScenarioRecord}

DecodeInputs ==
    {[b |-> Fill(pre, f) \o s \o Fill(post, f), o |-> o] :
        s \in Slices12, f \in SurroundBytes,
        pre \in 0..MaxPad, post \in 0..MaxPad, o \in 0..(MaxPad + 1)}
    \cup
    {[b |-> SubSeq(ScenarioRecord, 1, n), o |-> o] : n \in 0..(IFDLen - 1), o \in 0..MaxPad}

InitDecode ==
    /\ pc = "decode_start"
    /\ \E i \in DecodeInputs : buf = i.b /\ offset = i.o
    /\ seq = <<>> /\ self = DefaultIFD /\ header_offset = 0
    /\ ret = NoRet /\ out = <<>> /\ file = "none"
    /\ tiff_header_offset = 0 /\ ifd_make_offset = 0
    /\ ifd_make_tag = DefaultIFD /\ step = 0

FromOffsetCall ==
    /\ pc = "decode_start"
    /\ ret' = from_offset(buf, offset)
    /\ IF ret'.tag = "Panic"
       THEN pc' = "decode_panicked" /\ self' = self
       ELSE pc' = "decode_done" /\ self' = ret'.val
    /\ UNCHANGED <<buf, seq, offset, header_offset, out, file,
                   tiff_header_offset, ifd_make_offset, ifd_make_tag, step>>

\* println!("{}", ifd)
FmtDisplay ==
    /\ pc = "decode_done"
    /\ out' = Append(out, Line(IFDDisplay(self), <<>>))
    /\ pc' = "decode_displayed"
    /\ UNCHANGED <<buf, seq, offset, self, header_offset, ret, file,
                   tiff_header_offset, ifd_make_offset, ifd_make_tag, step>>

\* println!("{:x}", ifd)
FmtLowerHex ==
    /\ pc = "decode_displayed"
    /\ out' = Append(out, Line(IFDLowerHex(self), <<>>))
    /\ pc' = "decode_rendered"
    /\ UNCHANGED <<buf, seq, offset, self, header_offset, ret, file,
                   tiff_header_offset, ifd_make_offset, ifd_make_tag, step>>

NextDecode == FromOffsetCall \/ FmtDisplay \/ FmtLowerHex

SpecDecode == InitDecode /\ [][NextDecode]_vars

(***************************************************************************)
(* Claims about the record                                                 *)
(***************************************************************************)
Flatten4(f) == f[1] \o f[2] \o f[3] \o f[4]

\* C3: a decode at an offset with offset+12 <= len(buffer) yields, for the 12 bytes
\* b = buffer[offset .. offset+12): tag = b[0] + 256*b[1], tag_type = b[2] + 256*b[3],
\* count = the little-endian 32-bit value of b[4..8) and value_offset = that of
\* b[8..12) (32-bit values as two 16-bit halves); nothing else in the buffer matters.
C3_DecodeLittleEndian ==
    (pc /= "decode_start" /\ offset + 12 <= Len(buf)) =>
        /\ ret.tag = "Ok"
        /\ ret.val.tag = buf[offset + 1] + 256 * buf[offset + 2]
        /\ ret.val.tag_type = buf[offset + 3] + 256 * buf[offset + 4]
        /\ ret.val.count = <<buf[offset + 5] + 256 * buf[offset + 6],
                             buf[offset + 7] + 256 * buf[offset + 8]>>
        /\ ret.val.value_offset = <<buf[offset + 9] + 256 * buf[offset + 10],
                                    buf[offset + 11] + 256 * buf[offset + 12]>>

\* the scenario record inside a longer buffer, decoded and rendered "1, 2, 5, 8"
C3_Witness ==
    /\ pc = "decode_rendered"
    /\ offset = 1 /\ Len(buf) > offset + 12
    /\ SubSeq(buf, offset + 1, offset + 12) = ScenarioRecord
    /\ ret.val = [tag |-> 1, tag_type |-> 2, count |-> <<5, 0>>, value_offset |-> <<8, 0>>]
    /\ out[1].text = "1, 2, 5, 8"

\* C4: the little-endian bytes of the four decoded fields (2, 2, 4 and 4 bytes, in
\* that order), concatenated, are the 12 bytes the record was decoded from.
C4_RoundTrip ==
    (pc /= "decode_start" /\ offset + 12 <= Len(buf)) =>
        Flatten4(IFDLeBytes(self)) = SubSeq(buf, offset + 1, offset + 12)

\* a record with every byte non-zero and both 32-bit fields above 2^31
C4_Witness ==
    /\ pc = "decode_rendered"
    /\ SubSeq(buf, offset + 1, offset + 12) = PositionBytes
    /\ Flatten4(IFDLeBytes(self)) = PositionBytes
    /\ out[2].text = "[0f, 01][02, ff][05, 80, 7f, 01][08, 10, fe, ff]"

\* C5 as claimed: a decode where the buffer holds fewer than offset+12 bytes hands an
\* OutOfBounds error result back to its caller and the run goes on.
C5_ShortDecodeReturnsError ==
    (pc /= "decode_start" /\ offset + 12 > Len(buf)) =>
        (pc /= "decode_panicked" /\ ret.tag = "OutOfBounds")

(***************************************************************************)
(* IFD::print_value on its own                                             *)
(***************************************************************************)
\* 'a', and the two bytes of U+00E9: each of the two alone is malformed
Utf8Bytes == {97, 195, 169}

\* U+20AC, U+1F600, an encoded surrogate, a byte that never occurs in UTF-8,
\* and the two resolution scenarios
ExtraBufs ==
    { <<226, 130, 172>>, <<240, 159, 152, 128>>, <<237, 160, 128>>, <<97, 255, 97>>,
      <<0, 0, 0, 0, 97, 98, 99>>, Fill(50, 0) }

U32Samples ==
    { <<0, 0>>, <<1, 0>>, <<2, 0>>, <<3, 0>>, <<4, 0>>, <<1000, 0>>, <<0, 1>>, <<65535, 65535>> }

InitResolve ==
    /\ pc = "resolve_start"
    /\ buf \in Seqs(Utf8Bytes, MaxLen) \cup ExtraBufs
    /\ header_offset \in 0..Len(buf)
    /\ \E c \in U32Samples, v \in U32Samples :
          self = [tag |-> 271, tag_type |-> 2, count |-> c, value_offset |-> v]
    /\ seq = <<>> /\ offset = 0
    /\ ret = NoRet /\ out = <<>> /\ file = "none"
    /\ tiff_header_offset = 0 /\ ifd_make_offset = 0
    /\ ifd_make_tag = DefaultIFD /\ step = 0

PrintValueCall ==
    /\ pc = "resolve_start"
    /\ ret' = print_value(self, buf, header_offset)
    /\ IF ret'.tag = "Panic"
       THEN pc' = "resolve_panicked" /\ out' = out
       ELSE pc' = "resolve_done" /\ out' = Append(out, ret'.val)
    /\ UNCHANGED <<buf, seq, offset, self, header_offset, file,
                   tiff_header_offset, ifd_make_offset, ifd_make_tag, step>>

NextResolve == PrintValueCall

SpecResolve == InitResolve /\ [][NextResolve]_vars

(***************************************************************************)
(* Claims about value resolution                                           *)
(***************************************************************************)
\* a 32-bit value of 65536 or more lies beyond every buffer of the model
Beyond(x) == x[2] > 0

\* header_offset + value_offset, or that plus count, exceeds the buffer length
RangeOutside ==
    \/ Beyond(self.value_offset) \/ Beyond(self.count)
    \/ header_offset + self.value_offset[1] > Len(buf)
    \/ header_offset + self.value_offset[1] + self.count[1] > Len(buf)

\* the bytes of [header_offset + value_offset, header_offset + value_offset + count)
RangeBytes ==
    SubSeq(buf, header_offset + self.value_offset[1] + 1,
                header_offset + self.value_offset[1] + self.count[1])

\* the only line of the program that speaks of endianness
HasEndiannessHint(line) == line.text = CaughtPanicText

\* C6: when header_offset + value_offset, or that plus count, exceeds the buffer
\* length, print_value returns normally and leaves one diagnostic line, neither a
\* quoted value nor a panic.
C6_OutOfRangeIsDiagnostic ==
    (pc /= "resolve_start" /\ RangeOutside) =>
        /\ pc = "resolve_done"
        /\ Len(out) = 1
        /\ out[1].text = CaughtPanicText

\* the scenario: header offset 0, value offset 1000, a buffer of 50 bytes
C6_Witness ==
    /\ pc = "resolve_done"
    /\ Len(buf) = 50 /\ header_offset = 0 /\ self.value_offset = <<1000, 0>>
    /\ out = <<Line(CaughtPanicText, <<>>)>>

\* C7: when the range lies inside the buffer and its bytes are valid UTF-8, the
\* output is exactly those bytes, as text between single quotes; the range starts
\* at header_offset + value_offset and is count bytes long.
C7_ValidRangeIsQuoted ==
    (pc /= "resolve_start" /\ ~RangeOutside /\ from_utf8(RangeBytes).ok) =>
        /\ pc = "resolve_done"
        /\ out = <<Line(QuotedText, RangeBytes)>>

\* a two-byte character read at a non-zero header offset plus a non-zero value offset
C7_Witness ==
    /\ pc = "resolve_done"
    /\ header_offset = 1 /\ self.value_offset = <<1, 0>> /\ self.count = <<2, 0>>
    /\ buf = <<97, 97, 195, 169>>
    /\ out = <<Line(QuotedText, <<195, 169>>)>>

\* C8 as claimed: when the range lies inside the buffer and its bytes are not valid
\* UTF-8, print_value returns normally and its diagnostic carries the hint that the
\* endianness may be wrong.
C8_InvalidTextHintsEndianness ==
    (pc /= "resolve_start" /\ ~RangeOutside /\ ~from_utf8(RangeBytes).ok) =>
        /\ pc = "resolve_done"
        /\ Len(out) = 1
        /\ HasEndiannessHint(out[1])

(***************************************************************************)
(* main (lines 182-239)                                                    *)
(***************************************************************************)
MaxFileLen == 1024 * 1000

ReadingText == "Reading file: Kodak_CX7530.jpg"
OpenErrorText == "An error occurred while trying to open file: {}"
UnableText ==
    "Unable to find apropriate offsets. Exif data either not present or adheres to some other format."
DumpTitleText == "First 100 file bytes, wrapped to 10:"

\* {:2} of the loop variable
Pad2(n) == IF n < 10 THEN " " \o DecStr(n) ELSE DecStr(n)

\* File::open, metadata, the size check and read_all (lines 188-199).  stderr is
\* not recorded.  A file over the size limit is never read.
MainOpen ==
    /\ pc = "main_start"
    /\ IF file.status = "open_err"
       THEN /\ out' = <<Line(ReadingText, <<>>), Line(OpenErrorText, <<>>)>>
            /\ pc' = "main_end"
       ELSE /\ out' = <<Line(ReadingText, <<>>)>>
            /\ pc' = IF file.status = "metadata_err" THEN "main_err"
                     ELSE IF file.md_len > MaxFileLen THEN "main_end"
                     ELSE IF file.status = "read_err" THEN "main_err"
                     ELSE "main_find"
    /\ UNCHANGED <<buf, seq, offset, self, header_offset, ret, file,
                   tiff_header_offset, ifd_make_offset, ifd_make_tag, step>>

\* lines 202-206
MainFind ==
    /\ pc = "main_find"
    /\ tiff_header_offset' = find(buf, bytes_from_str(<<"4", "9", "4", "9">>)).val
    /\ ifd_make_offset' = find(buf, bytes_from_str(<<"0", "f", "0", "1">>)).val
    /\ pc' = "main_decode"
    /\ UNCHANGED <<buf, seq, offset, self, header_offset, ret, out, file,
                   ifd_make_tag, step>>

\* line 209
MainDecode ==
    /\ pc = "main_decode"
    /\ LET r == from_offset(buf, ifd_make_offset)
       IN  IF r.tag = "Panic"
           THEN pc' = "main_panicked" /\ ifd_make_tag' = ifd_make_tag
           ELSE pc' = "main_branch" /\ ifd_make_tag' = r.val
    /\ UNCHANGED <<buf, seq, offset, self, header_offset, ret, out, file,
                   tiff_header_offset, ifd_make_offset, step>>

\* lines 212-213
MainUnable ==
    /\ pc = "main_branch"
    /\ tiff_header_offset = 0 \/ ifd_make_offset = 0
    /\ out' = Append(out, Line(UnableText, <<>>))
    /\ pc' = "main_end"
    /\ UNCHANGED <<buf, seq, offset, self, header_offset, ret, file,
                   tiff_header_offset, ifd_make_offset, ifd_make_tag, step>>

\* lines 214-217: the else branch up to the first iteration
MainDumpStart ==
    /\ pc = "main_branch"
    /\ ~(tiff_header_offset = 0 \/ ifd_make_offset = 0)
    /\ out' = Append(out, Line(DumpTitleText, <<>>))
    /\ step' = 0
    /\ pc' = "main_dump"
    /\ UNCHANGED <<buf, seq, offset, self, header_offset, ret, file,
                   tiff_header_offset, ifd_make_offset, ifd_make_tag>>

\* lines 217-220: one iteration of (0..100).step_by(10); the label is printed
\* before print_offset slices the buffer
MainDumpStep ==
    /\ pc = "main_dump"
    /\ step < DumpSpan
    /\ LET r == print_offset(buf, step, DumpChunk)
       IN  IF r.tag = "Panic"
           THEN /\ out' = Append(out, Line(Pad2(step) \o ": ", <<>>))
                /\ pc' = "main_panicked"
                /\ step' = step
           ELSE /\ out' = Append(out, Line(Pad2(step) \o ": " \o r.val.text, <<>>))
                /\ pc' = "main_dump"
                /\ step' = step + DumpStep
    /\ UNCHANGED <<buf, seq, offset, self, header_offset, ret, file,
                   tiff_header_offset, ifd_make_offset, ifd_make_tag>>

\* lines 221-227
MainReport ==
    /\ pc = "main_dump"
    /\ step >= DumpSpan
    /\ out' = out \o
          << Line("", <<>>),
             Line("tiff offset: " \o DecStr(tiff_header_offset), <<>>),
             Line("ifd make offset: " \o DecStr(ifd_make_offset), <<>>),
             Line("ifd make numerical values: " \o IFDDisplay(ifd_make_tag), <<>>),
             Line("ifd make le byte values: " \o IFDLowerHex(ifd_make_tag), <<>>) >>
    /\ pc' = "main_value"
    /\ UNCHANGED <<buf, seq, offset, self, header_offset, ret, file,
                   tiff_header_offset, ifd_make_offset, ifd_make_tag, step>>

\* the tag's offset handed to print_value as the header offset
MainPrintValue_TagOffsetAsHeader ==
    /\ pc = "main_value"
    /\ self' = ifd_make_tag
    /\ header_offset' = ifd_make_offset
    /\ LET r == print_value(self', buf, header_offset')
       IN  IF r.tag = "Panic"
           THEN pc' = "main_panicked" /\ out' = Append(out, Line("make tag value: ", <<>>))
           ELSE /\ pc' = "main_end"
                /\ out' = Append(out, Line("make tag value: " \o r.val.text, r.val.bytes))
    /\ UNCHANGED <<buf, seq, offset, ret, file,
                   tiff_header_offset, ifd_make_offset, ifd_make_tag, step>>

\* lines 229-230: self and header_offset are the arguments print_value receives
MainPrintValue ==
    /\ pc = "main_value"
    /\ self' = ifd_make_tag
    /\ header_offset' = tiff_header_offset
    /\ LET r == print_value(self', buf, header_offset')
       IN  IF r.tag = "Panic"
           THEN pc' = "main_panicked" /\ out' = Append(out, Line("make tag value: ", <<>>))
           ELSE /\ pc' = "main_end"
                /\ out' = Append(out, Line("make tag value: " \o r.val.text, r.val.bytes))
    /\ UNCHANGED <<buf, seq, offset, ret, file,
                   tiff_header_offset, ifd_make_offset, ifd_make_tag, step>>

Next ==
    \/ MainOpen
    \/ MainFind
    \/ MainDecode
    \/ MainUnable
    \/ MainDumpStart
    \/ MainDumpStep
    \/ MainReport
    \/ MainPrintValue

(***************************************************************************)
(* Files given to main                                                     *)
(***************************************************************************)
\* the bytes of the two markers
MarkerBytes == {1, 15, 73}

HeaderParts == { <<>>, <<73, 73>> }

\* nothing, the bare tag marker, and records starting with it: a 3-byte value at
\* offset 4, one at offset 1000, count and offset stored big-endian, an empty value
TagParts ==
    { <<>>, <<15, 1>>,
      <<15, 1, 2, 0, 3, 0, 0, 0, 4, 0, 0, 0>>,
      <<15, 1, 2, 0, 3, 0, 0, 0, 232, 3, 0, 0>>,
      <<15, 1, 2, 0, 0, 0, 0, 3, 0, 0, 0, 4>>,
      <<15, 1, 2, 0, 0, 0, 0, 0, 0, 0, 0, 0>> }

\* 'a', and a byte that never occurs in UTF-8
FillBytes == {97, 255}

TailLens == {0, 9, 90, 100}

BuiltBufs ==
    { Fill(pre, f) \o x \o Fill(gap, f) \o y \o Fill(post, f) :
        <<x, y>> \in (HeaderParts \X TagParts) \cup (TagParts \X HeaderParts),
        pre \in 0..MaxPad, gap \in 0..MaxPad, post \in TailLens, f \in FillBytes }

FileOutcomes ==
    { [status |-> st, md_len |-> 0] : st \in {"open_err", "metadata_err"} }
    \cup { [status |-> "ok", md_len |-> MaxFileLen + 1] }
    \cup { [status |-> "read_err", md_len |-> 0] }

Init ==
    /\ pc = "main_start"
    /\ \/ buf \in Seqs(MarkerBytes, MaxLen) \cup BuiltBufs /\ file = [status |-> "ok", md_len |-> Len(buf)]
       \/ buf = <<>> /\ file \in FileOutcomes
    /\ seq = <<>> /\ offset = 0 /\ self = DefaultIFD /\ header_offset = 0
    /\ ret = NoRet /\ out = <<>>
    /\ tiff_header_offset = 0 /\ ifd_make_offset = 0
    /\ ifd_make_tag = DefaultIFD /\ step = 0

Spec == Init /\ [][Next]_vars

(***************************************************************************)
(* Claims about main                                                       *)
(***************************************************************************)
ReadOk == file.status = "ok" /\ file.md_len <= MaxFileLen

\* C9 as claimed: for every file that was read, main never panics: the IFD decode
\* it has performed was at an offset with offset+12 <= len(buffer) and the 10-byte
\* chunks of the dump it has printed lie inside the buffer.
C9_MainNeverPanics ==
    ReadOk =>
        /\ pc /= "main_panicked"
        /\ pc \notin {"main_start", "main_find", "main_decode"}
              => ifd_make_offset + 12 <= Len(buf)
        /\ pc = "main_dump" => step <= Len(buf)

HeaderMarker == <<73, 73>>
TagMarker == <<15, 1>>

\* lines of the dump, of the record renderings or of the value resolution
ReportLines == {i \in 1..Len(out) : out[i].text \notin {ReadingText, UnableText}}

====
